---- MODULE Spec2Model ----
(***************************************************************************)
(* MicroSlate firmware: the device session coordinator.                    *)
(*   src/src/main.cpp          loop(), processPhysicalButtons(),           *)
(*                             enterDeepSleep(), updateScreen()            *)
(*   src/src/file_manager.cpp  the note store on the SD card               *)
(* Text is a sequence of one-character strings.  The notes directory is a  *)
(* function from file names (relative to /notes) to contents; a name that  *)
(* is not in its domain is a file that does not exist.                     *)
(***************************************************************************)
EXTENDS Integers, Sequences, FiniteSets, TLC

VARIABLES
  currentState,          \* main.cpp:33   UIState currentState
  screenDirty,           \* main.cpp:40
  lastState,             \* main.cpp:452  static in loop()
  autoReconnectEnabled,  \* main.cpp:25
  scanning,              \* BLE transport: isDeviceScanning()
  btnLast,               \* main.cpp:178-183 the six btn*Last statics (set of buttons)
  powerHeld,             \* main.cpp:220
  powerPressStart,       \* main.cpp:221
  sleepTriggered,        \* main.cpp:222
  lastActivityTime,      \* main.cpp:405
  lastScreenUpdate,      \* main.cpp:496
  lastBtRefresh,         \* main.cpp:478
  now,                   \* millis() as read in the latest loop() iteration
  asleep,                \* the processor is suspended (gpio.startDeepSleep did not return)
  trace,                 \* side effects of the latest loop() iteration, in call order
  sdOK,                  \* the SD card is mounted and its operations succeed
  disk,                  \* the files of /notes
  fileList,              \* file_manager.cpp:8-9  fileList[0..fileCount-1]
  curFile,               \* editor: editorGetCurrentFile()
  curTitle,              \* editor: editorGetCurrentTitle()
  buf,                   \* editor: editorGetBuffer()[0..editorGetLength()-1]
  unsaved,               \* editor: editorHasUnsavedChanges()
  savePc,                \* position inside saveCurrentFile() ("idle" outside it)
  crashed,               \* power was lost; only the disk survives
  prevDisk,              \* the notes directory when the running save() was entered
  holdSleeps,            \* enterDeepSleep calls made by the power-button logic in the current hold
  lastRegistered,        \* millis() at the latest registerActivity() (0 before the first)
  powerLog,              \* what the power-button logic did in the latest iteration
  tickScreen,            \* currentState as loop() found it on entry to the latest iteration
  leftBtScanning,        \* in the latest iteration the screen left BLUETOOTH_SETTINGS during a scan
  mainMenuSelection,     \* main.cpp:34
  selectedFileIndex,     \* main.cpp:35
  lastOp,                \* the latest call into the note store, with its arguments
  yielded                \* the filenames createNewFile() has yielded so far
vars == << currentState, screenDirty, lastState, autoReconnectEnabled, scanning,
           btnLast, powerHeld, powerPressStart, sleepTriggered, lastActivityTime,
           lastScreenUpdate, lastBtRefresh, now, asleep, trace, sdOK, disk,
           fileList, curFile, curTitle, buf, unsaved, savePc, crashed, prevDisk,
           holdSleeps, lastRegistered, powerLog, tickScreen, leftBtScanning,
           mainMenuSelection, selectedFileIndex, lastOp, yielded >>

----------------------------------------------------------------------------
(* Text helpers *)

LF == "\n"
CR == "\r"
SP == " "

Min(a, b) == IF a < b THEN a ELSE b

Take(s, n) == SubSeq(s, 1, Min(n, Len(s)))

Drop(s, n) == SubSeq(s, n + 1, Len(s))

\* strchr(buf, '\n'): 1-based position of the first line feed, 0 when there is none
Strchr(s, c) == IF \E i \in 1..Len(s) : s[i] = c
                THEN CHOOSE i \in 1..Len(s) : s[i] = c /\ \A j \in 1..(i - 1) : s[j] # c
                ELSE 0

\* first position >= from whose character is not in the set cs (Len(s)+1 when none:
\* the C loops stop at the terminating NUL)
SkipWhile(s, from, cs) ==
  IF \E i \in from..Len(s) : s[i] \notin cs
  THEN CHOOSE i \in from..Len(s) : s[i] \notin cs /\ \A j \in from..(i - 1) : s[j] \in cs
  ELSE Len(s) + 1

RECURSIVE StripTrailing(_, _)
StripTrailing(s, c) == IF Len(s) > 0 /\ s[Len(s)] = c
                       THEN StripTrailing(SubSeq(s, 1, Len(s) - 1), c)
                       ELSE s

EndsWith(s, suffix) == Len(s) >= Len(suffix)
                       /\ SubSeq(s, Len(s) - Len(suffix) + 1, Len(s)) = suffix

Untitled == <<"U", "n", "t", "i", "t", "l", "e", "d">>
DotTxt == <<".", "t", "x", "t">>
DotTmp == <<".", "t", "m", "p">>
Ellipsis == <<".", ".", ".">>

----------------------------------------------------------------------------
(* Capacities of config.h, scaled down for checking *)

MAX_TITLE_LEN == 10
TEXT_BUFFER_SIZE == 16
MAX_FILES == 3
CHUNK_SIZE == 256
MAX_FILENAME_LEN == 16

----------------------------------------------------------------------------
(* The state as one record, so that the C functions compose as operators *)

Cur == [ currentState |-> currentState, screenDirty |-> screenDirty,
         lastState |-> lastState, autoReconnectEnabled |-> autoReconnectEnabled,
         scanning |-> scanning, btnLast |-> btnLast, powerHeld |-> powerHeld,
         powerPressStart |-> powerPressStart, sleepTriggered |-> sleepTriggered,
         lastActivityTime |-> lastActivityTime, lastScreenUpdate |-> lastScreenUpdate,
         lastBtRefresh |-> lastBtRefresh, now |-> now, asleep |-> asleep,
         trace |-> trace, sdOK |-> sdOK, disk |-> disk, fileList |-> fileList,
         curFile |-> curFile, curTitle |-> curTitle, buf |-> buf,
         unsaved |-> unsaved, savePc |-> savePc, crashed |-> crashed,
         prevDisk |-> prevDisk, holdSleeps |-> holdSleeps,
         lastRegistered |-> lastRegistered, powerLog |-> powerLog,
         tickScreen |-> tickScreen, leftBtScanning |-> leftBtScanning,
         mainMenuSelection |-> mainMenuSelection,
         selectedFileIndex |-> selectedFileIndex, lastOp |-> lastOp,
         yielded |-> yielded ]

Install(r) ==
  /\ currentState' = r.currentState
  /\ screenDirty' = r.screenDirty
  /\ lastState' = r.lastState
  /\ autoReconnectEnabled' = r.autoReconnectEnabled
  /\ scanning' = r.scanning
  /\ btnLast' = r.btnLast
  /\ powerHeld' = r.powerHeld
  /\ powerPressStart' = r.powerPressStart
  /\ sleepTriggered' = r.sleepTriggered
  /\ lastActivityTime' = r.lastActivityTime
  /\ lastScreenUpdate' = r.lastScreenUpdate
  /\ lastBtRefresh' = r.lastBtRefresh
  /\ now' = r.now
  /\ asleep' = r.asleep
  /\ trace' = r.trace
  /\ sdOK' = r.sdOK
  /\ disk' = r.disk
  /\ fileList' = r.fileList
  /\ curFile' = r.curFile
  /\ curTitle' = r.curTitle
  /\ buf' = r.buf
  /\ unsaved' = r.unsaved
  /\ savePc' = r.savePc
  /\ crashed' = r.crashed
  /\ prevDisk' = r.prevDisk
  /\ holdSleeps' = r.holdSleeps
  /\ lastRegistered' = r.lastRegistered
  /\ powerLog' = r.powerLog
  /\ tickScreen' = r.tickScreen
  /\ leftBtScanning' = r.leftBtScanning
  /\ mainMenuSelection' = r.mainMenuSelection
  /\ selectedFileIndex' = r.selectedFileIndex
  /\ lastOp' = r.lastOp
  /\ yielded' = r.yielded

Log(s, e) == [s EXCEPT !.trace = Append(@, e)]

----------------------------------------------------------------------------
(* The SD card file API (SdMan), as the store uses it *)

FsExists(d, name) == name \in DOMAIN d

FsWrite(d, name, content) ==
  [n \in (DOMAIN d) \cup {name} |-> IF n = name THEN content ELSE d[n]]

FsRemove(d, name) == [n \in (DOMAIN d) \ {name} |-> d[n]]

\* SdMan.rename fails when the source is missing or the target exists
FsRename(d, from, to) ==
  IF FsExists(d, from) /\ ~FsExists(d, to)
  THEN [n \in ((DOMAIN d) \ {from}) \cup {to} |-> IF n = to THEN d[from] ELSE d[n]]
  ELSE d

\* the entries of /notes; openNextFile() yields them in the order NextEntry picks
DirEntries(d) == DOMAIN d

NextEntry(names) == CHOOSE y \in names : TRUE

----------------------------------------------------------------------------
(* file_manager.cpp *)

ReadTitleFromFile(ok, d, name, maxLen) ==
  IF ~ok \/ ~FsExists(d, name) THEN Take(Untitled, maxLen - 1)
  ELSE
    LET chunk == Take(d[name], CHUNK_SIZE - 1)
        bytesRead == Len(chunk)
        start == SkipWhile(chunk, 1, {LF, CR})
        end == IF \E i \in start..bytesRead : chunk[i] \in {LF, CR}
               THEN CHOOSE i \in start..bytesRead :
                      chunk[i] \in {LF, CR} /\ \A j \in start..(i - 1) : chunk[j] \notin {LF, CR}
               ELSE bytesRead + 1
        line == StripTrailing(SubSeq(chunk, start, end - 1), SP)
    IN IF bytesRead > 0 /\ start <= bytesRead /\ Len(line) > 0
       THEN IF Len(line) > maxLen - 4
            THEN Take(line, maxLen - 4) \o Ellipsis
            ELSE line
       ELSE Take(Untitled, maxLen - 1)

RECURSIVE ScanDir(_, _, _, _)
ScanDir(ok, d, names, acc) ==
  IF names = {} THEN acc
  ELSE LET name == NextEntry(names)
           rest == names \ {name}
       IN IF name[1] = "."
          THEN ScanDir(ok, d, rest, acc)
          ELSE IF Len(acc) >= MAX_FILES
          THEN acc
          ELSE IF Len(name) > 4 /\ EndsWith(name, DotTxt)
          THEN ScanDir(ok, d, rest,
                       Append(acc, [filename |-> Take(name, MAX_FILENAME_LEN - 1),
                                    title |-> ReadTitleFromFile(ok, d, name, MAX_TITLE_LEN)]))
          ELSE ScanDir(ok, d, rest, acc)

refreshFileList(s) ==
  IF ~s.sdOK THEN [s EXCEPT !.fileList = <<>>]
  ELSE [s EXCEPT !.fileList = ScanDir(s.sdOK, s.disk, DirEntries(s.disk), <<>>)]

getFileCount(s) == Len(s.fileList)

\* the body taken right after the title line, blank lines included
BodyStart_NoSkip(raw, newline) == newline + 1

\* file_manager.cpp:150-151  skip past the title line and the blank separator line(s)
BodyStart(raw, newline) == SkipWhile(raw, newline + 1, {LF, CR})

\* the split taken whenever the content holds a line feed, a leading one included
loadFile_AnyNewline(s, filename) ==
  IF ~s.sdOK \/ ~FsExists(s.disk, filename) THEN s
  ELSE
    LET raw == Take(s.disk[filename], TEXT_BUFFER_SIZE - 1)
        newline == Strchr(raw, LF)
        tLen == Min(newline - 1, MAX_TITLE_LEN - 1)
        body == BodyStart(raw, newline)
    IN IF newline > 0
       THEN [s EXCEPT !.curFile = filename,
                      !.curTitle = StripTrailing(Take(raw, tLen), CR),
                      !.buf = Drop(raw, body - 1),
                      !.unsaved = FALSE,
                      !.currentState = "TEXT_EDITOR"]
       ELSE [s EXCEPT !.curFile = filename,
                      !.curTitle = Take(Untitled, MAX_TITLE_LEN - 1),
                      !.buf = raw,
                      !.unsaved = FALSE,
                      !.currentState = "TEXT_EDITOR"]

loadFile(s, filename) ==
  IF ~s.sdOK \/ ~FsExists(s.disk, filename) THEN s
  ELSE
    LET raw == Take(s.disk[filename], TEXT_BUFFER_SIZE - 1)
        bytesRead == Len(raw)
        newline == Strchr(raw, LF)
        tLen == Min(newline - 1, MAX_TITLE_LEN - 1)
        body == BodyStart(raw, newline)
    IN IF newline > 1
       THEN [s EXCEPT !.curFile = filename,
                      !.curTitle = StripTrailing(Take(raw, tLen), CR),
                      !.buf = Drop(raw, body - 1),
                      !.unsaved = FALSE,
                      !.currentState = "TEXT_EDITOR"]
       ELSE [s EXCEPT !.curFile = filename,
                      !.curTitle = Take(Untitled, MAX_TITLE_LEN - 1),
                      !.buf = raw,
                      !.unsaved = FALSE,
                      !.currentState = "TEXT_EDITOR"]

TmpName(filename) == filename \o DotTmp

\* file.write(), SdMan.remove() and SdMan.rename() on the card: each fails, and
\* leaves the files as they are, once the card is gone; the callers in
\* saveCurrentFile() do not look at the result
SdWrite(s, name, bytes) ==
  IF s.sdOK /\ FsExists(s.disk, name)
  THEN FsWrite(s.disk, name, s.disk[name] \o bytes)
  ELSE s.disk

SdRemove(s, name) == IF s.sdOK THEN FsRemove(s.disk, name) ELSE s.disk

SdRename(s, from, to) == IF s.sdOK THEN FsRename(s.disk, from, to) ELSE s.disk

\* saveCurrentFile() up to its first file operation: the filename check
SaveEnter(s) ==
  IF s.curFile = <<>> THEN [s EXCEPT !.savePc = "idle"]
  ELSE [s EXCEPT !.savePc = "open", !.prevDisk = s.disk]

\* saveCurrentFile() that goes on to clear the flag when the temp file cannot be opened
SaveStep_FlagOnFailure(s) ==
  LET tmp == TmpName(s.curFile)
  IN CASE s.savePc = "open" ->
            IF ~s.sdOK THEN [s EXCEPT !.unsaved = FALSE, !.savePc = "idle"]
            ELSE [s EXCEPT !.disk = FsWrite(@, tmp, <<>>), !.savePc = "write_title"]
       [] s.savePc = "write_title" ->
            [s EXCEPT !.disk = SdWrite(s, tmp, s.curTitle), !.savePc = "write_sep"]
       [] s.savePc = "write_sep" ->
            [s EXCEPT !.disk = SdWrite(s, tmp, <<LF, LF>>), !.savePc = "write_body"]
       [] s.savePc = "write_body" ->
            [s EXCEPT !.disk = SdWrite(s, tmp, s.buf), !.savePc = "remove"]
       [] s.savePc = "remove" ->
            [s EXCEPT !.disk = SdRemove(s, s.curFile), !.savePc = "rename"]
       [] s.savePc = "rename" ->
            [s EXCEPT !.disk = SdRename(s, tmp, s.curFile), !.savePc = "flag"]
       [] s.savePc = "flag" ->
            [refreshFileList([s EXCEPT !.unsaved = FALSE]) EXCEPT !.savePc = "idle"]
       [] OTHER -> s

\* one file operation (or the closing in-memory step) of saveCurrentFile()
SaveStep(s) ==
  LET tmp == TmpName(s.curFile)
  IN CASE s.savePc = "open" ->
            IF ~s.sdOK THEN [s EXCEPT !.savePc = "idle"]
            ELSE [s EXCEPT !.disk = FsWrite(@, tmp, <<>>), !.savePc = "write_title"]
       [] s.savePc = "write_title" ->
            [s EXCEPT !.disk = SdWrite(s, tmp, s.curTitle), !.savePc = "write_sep"]
       [] s.savePc = "write_sep" ->
            [s EXCEPT !.disk = SdWrite(s, tmp, <<LF, LF>>), !.savePc = "write_body"]
       [] s.savePc = "write_body" ->
            [s EXCEPT !.disk = SdWrite(s, tmp, s.buf), !.savePc = "remove"]
       [] s.savePc = "remove" ->
            [s EXCEPT !.disk = SdRemove(s, s.curFile), !.savePc = "rename"]
       [] s.savePc = "rename" ->
            [s EXCEPT !.disk = SdRename(s, tmp, s.curFile), !.savePc = "flag"]
       [] s.savePc = "flag" ->
            [refreshFileList([s EXCEPT !.unsaved = FALSE]) EXCEPT !.savePc = "idle"]
       [] OTHER -> s

RECURSIVE SaveRun(_)
SaveRun(s) == IF s.savePc = "idle" THEN s ELSE SaveRun(SaveStep(s))

saveCurrentFile(s) == SaveRun(SaveEnter(s))

UpperCase == <<"A", "B", "C", "D", "E", "F", "G", "H", "I", "J", "K", "L", "M",
               "N", "O", "P", "Q", "R", "S", "T", "U", "V", "W", "X", "Y", "Z">>
LowerCase == <<"a", "b", "c", "d", "e", "f", "g", "h", "i", "j", "k", "l", "m",
               "n", "o", "p", "q", "r", "s", "t", "u", "v", "w", "x", "y", "z">>
Digits == <<"0", "1", "2", "3", "4", "5", "6", "7", "8", "9">>

Range(q) == {q[i] : i \in 1..Len(q)}

\* file_manager.cpp:241  if (c >= 'A' && c <= 'Z') c += 32
ToLower(c) == IF c \in Range(UpperCase)
              THEN LowerCase[CHOOSE i \in 1..Len(UpperCase) : UpperCase[i] = c]
              ELSE c

\* printf("%d") of a number >= 0
RECURSIVE Dec(_)
Dec(n) == IF n < 10 THEN <<Digits[n + 1]>>
          ELSE Dec(n \div 10) \o <<Digits[(n % 10) + 1]>>

\* atoi() of text without sign or leading blanks: the value of its leading digits
RECURSIVE AtoiFrom(_, _)
AtoiFrom(q, acc) ==
  IF q # << >> /\ Head(q) \in Range(Digits)
  THEN AtoiFrom(Tail(q), 10 * acc + (CHOOSE d \in 0..9 : Digits[d + 1] = Head(q)))
  ELSE acc

Atoi(q) == AtoiFrom(q, 0)

NoteBase == <<"n", "o", "t", "e">>
CounterFile == <<".", "c", "o", "u", "n", "t", "e", "r">>
NotePrefix == <<"n", "o", "t", "e", "_">>
COUNTER_CHUNK == 16

\* the loop of titleToFilename without the removal of trailing underscores
SlugTrim_Keep(out) == out

\* file_manager.cpp:248  while (j > 0 && out[j - 1] == '_') j--
SlugTrim(out) == StripTrailing(out, "_")

\* file_manager.cpp:239-247  the characters of title from position i on, appended to out
RECURSIVE SlugScan(_, _, _, _)
SlugScan(title, i, out, maxBase) ==
  IF i > Len(title) \/ Len(out) >= maxBase THEN out
  ELSE LET c == ToLower(title[i])
       IN IF c \in Range(LowerCase) \cup Range(Digits)
          THEN SlugScan(title, i + 1, Append(out, c), maxBase)
          ELSE IF c \in {SP, "_", "-"} /\ Len(out) > 0 /\ out[Len(out)] # "_"
          THEN SlugScan(title, i + 1, Append(out, "_"), maxBase)
          ELSE SlugScan(title, i + 1, out, maxBase)

titleToFilename(title, maxLen) ==
  LET out == SlugTrim(SlugScan(title, 1, << >>, maxLen - 5))
  IN (IF out = << >> THEN Take(NoteBase, maxLen - 1) ELSE out) \o DotTxt

\* the byte that ends a C string, where it shows inside the editor's view of its buffer
NUL == "NUL"

\* file_manager.cpp:296-298  base: newFilename without ".txt".  strncpy() leaves
\* base without its terminator when newFilename fills MAX_FILENAME_LEN - 1 bytes;
\* strlen(base) then counts on through `garbage` uninitialised non-zero bytes and
\* the terminator is written that many bytes too late.
BaseOf(newFilename, garbage) ==
  IF Len(newFilename) < MAX_FILENAME_LEN - 1
  THEN Take(newFilename, Len(newFilename) - 4)
  ELSE Take(newFilename, Len(newFilename) - 4 + garbage)

\* file_manager.cpp:304  snprintf(newFilename, MAX_FILENAME_LEN, "%s_%d.txt", base, suffix)
Suffixed(base, suffix) ==
  Take(base \o <<"_">> \o Dec(suffix) \o DotTxt, MAX_FILENAME_LEN - 1)

MAX_SUFFIX == 99

\* file_manager.cpp:302-306  the name the collision loop ends with
RECURSIVE CollisionLoop(_, _, _, _)
CollisionLoop(d, base, newFilename, suffix) ==
  IF FsExists(d, newFilename) /\ suffix <= MAX_SUFFIX
  THEN CollisionLoop(d, base, Suffixed(base, suffix), suffix + 1)
  ELSE newFilename

\* file_manager.cpp:272-277  the body: past the first line feed and the line breaks
\* that follow it; nothing when the content holds no line feed
KeptBody(raw) ==
  LET newline == Strchr(raw, LF)
  IN IF newline > 0 THEN Drop(raw, SkipWhile(raw, newline, {LF, CR}) - 1) ELSE << >>

\* file_manager.cpp:265-269  the editor's text after the file was read over its buffer
Overwritten(old, raw) == Take(raw \o <<NUL>> \o Drop(old, Len(raw) + 1), Len(old))

updateFileTitle(s, filename, newTitle, garbage) ==
  IF ~s.sdOK \/ ~FsExists(s.disk, filename) THEN s
  ELSE
    LET raw == Take(s.disk[filename], TEXT_BUFFER_SIZE - 1)
        tmp == TmpName(filename)
        written == FsWrite(s.disk, tmp, newTitle \o <<LF, LF>> \o KeptBody(raw))
        retitled == FsRename(FsRemove(written, filename), tmp, filename)
        newFilename == titleToFilename(newTitle, MAX_FILENAME_LEN)
        target == CollisionLoop(retitled, BaseOf(newFilename, garbage), newFilename, 2)
    IN IF newFilename # filename
       THEN refreshFileList([s EXCEPT !.buf = Overwritten(s.buf, raw),
                                      !.disk = FsRename(retitled, filename, target),
                                      !.curFile = IF @ = filename THEN target ELSE @])
       ELSE refreshFileList([s EXCEPT !.buf = Overwritten(s.buf, raw),
                                      !.disk = retitled])

\* the file removed without a rescan of the directory
deleteFile_NoRefresh(s, filename) ==
  [s EXCEPT !.disk = IF s.sdOK THEN FsRemove(@, filename) ELSE @]

deleteFile(s, filename) ==
  refreshFileList([s EXCEPT !.disk = IF s.sdOK THEN FsRemove(@, filename) ELSE @])

\* file_manager.cpp:200-211  the counter read from /notes/.counter, plus one
NextCounter(s) ==
  IF s.sdOK /\ FsExists(s.disk, CounterFile)
  THEN Atoi(Take(s.disk[CounterFile], COUNTER_CHUNK - 1)) + 1
  ELSE 1

\* file_manager.cpp:222-223
NewNoteName(counter, millis) ==
  Take(NotePrefix \o Dec(counter) \o <<"_">> \o Dec(millis) \o DotTxt, MAX_FILENAME_LEN - 1)

createNewFile(s, millis) ==
  LET counter == NextCounter(s)
  IN [s EXCEPT !.disk = IF s.sdOK
                        THEN FsWrite(@, CounterFile, Take(Dec(counter), COUNTER_CHUNK - 1))
                        ELSE @,
               !.buf = << >>,
               !.curFile = NewNoteName(counter, millis),
               !.yielded = @ \cup {NewNoteName(counter, millis)},
               !.curTitle = Untitled,
               !.unsaved = TRUE]
----------------------------------------------------------------------------
(* main.cpp *)

UIStates == {"MAIN_MENU", "FILE_BROWSER", "TEXT_EDITOR", "RENAME_FILE", "NEW_FILE",
             "SETTINGS", "BLUETOOTH_SETTINGS"}

Buttons == {"UP", "DOWN", "LEFT", "RIGHT", "CONFIRM", "BACK"}

IDLE_TIMEOUT == 600000
LONG_PRESS_MS == 5000
SHORT_PRESS_MIN_MS == 50
SHORT_PRESS_MAX_MS == 1000
SCREEN_UPDATE_MS == 250
BT_REFRESH_MS == 3000
ADC_SAMPLES == 8

\* unsigned long subtraction of two millis() readings; the readings of the model
\* stay far below the 2^32 wrap and never decrease, so no reduction applies
Elapsed(later, earlier) == later - earlier

RECURSIVE SumSeq(_)
SumSeq(q) == IF q = <<>> THEN 0 ELSE Head(q) + SumSeq(Tail(q))

\* the samples are the analogRead() results of one call
readADCAvg(samples) == SumSeq(samples) \div ADC_SAMPLES

adcToButton1(adc) == IF adc > 3800 THEN -1
                     ELSE IF adc > 2600 THEN 0
                     ELSE IF adc > 1400 THEN 1
                     ELSE IF adc > 400 THEN 2
                     ELSE 3

adcToButton2(adc) == IF adc > 3800 THEN -1
                     ELSE IF adc > 600 THEN 0
                     ELSE 1

\* every assignment to currentState made outside loadFile()
SetScreen(s, to) ==
  [s EXCEPT !.currentState = to,
            !.leftBtScanning = @ \/ (s.currentState = "BLUETOOTH_SETTINGS"
                                     /\ to # "BLUETOOTH_SETTINGS" /\ s.scanning)]

renderSleepScreen(s) == Log(s, "sleepNotice")

\* the sleep sequence with the display powered down before the save
enterDeepSleep_DisplayFirst(s, suspends) ==
  LET s1 == Log(renderSleepScreen(s), "displayOff")
      s2 == IF s1.currentState = "TEXT_EDITOR" /\ s1.unsaved
            THEN saveCurrentFile(Log(s1, "save"))
            ELSE s1
  IN [Log(s2, "suspend") EXCEPT !.asleep = suspends]

enterDeepSleep(s, suspends) ==
  LET s1 == renderSleepScreen(s)
      s2 == IF s1.currentState = "TEXT_EDITOR" /\ s1.unsaved
            THEN saveCurrentFile(Log(s1, "save"))
            ELSE s1
      s3 == Log(s2, "displayOff")
  IN [Log(s3, "suspend") EXCEPT !.asleep = suspends]

\* the switch of processPhysicalButtons: per screen, the live buttons in code order
KeyMap(state) ==
  CASE state = "MAIN_MENU" ->
         << <<"UP", "key_UP">>, <<"DOWN", "key_DOWN">>, <<"CONFIRM", "key_ENTER">> >>
    [] state = "FILE_BROWSER" ->
         << <<"UP", "key_UP">>, <<"DOWN", "key_DOWN">>, <<"CONFIRM", "key_ENTER">>,
            <<"BACK", "key_ESCAPE">> >>
    [] state = "TEXT_EDITOR" ->
         << <<"UP", "key_UP">>, <<"DOWN", "key_DOWN">>, <<"LEFT", "key_LEFT">>,
            <<"RIGHT", "key_RIGHT">>, <<"CONFIRM", "key_ENTER">> >>
    [] state \in {"RENAME_FILE", "NEW_FILE"} ->
         << <<"CONFIRM", "key_ENTER">>, <<"BACK", "key_ESCAPE">> >>
    [] state = "BLUETOOTH_SETTINGS" ->
         << <<"UP", "key_UP">>, <<"DOWN", "key_DOWN">>, <<"CONFIRM", "key_ENTER">>,
            <<"BACK", "key_ESCAPE">> >>
    [] state = "SETTINGS" ->
         << <<"UP", "key_UP">>, <<"DOWN", "key_DOWN">>, <<"LEFT", "key_LEFT">>,
            <<"RIGHT", "key_RIGHT">>, <<"CONFIRM", "key_ENTER">>, <<"BACK", "key_ESCAPE">> >>
    [] OTHER -> << >>

KeyEvents == {"key_UP", "key_DOWN", "key_LEFT", "key_RIGHT", "key_ENTER", "key_ESCAPE"}

RECURSIVE EnqueueKeys(_, _, _)
EnqueueKeys(s, edges, map) ==
  IF map = << >> THEN s
  ELSE LET b == Head(map)[1]
           live == b \in edges
                   /\ (s.currentState = "FILE_BROWSER" /\ b \in {"UP", "DOWN", "CONFIRM"}
                          => getFileCount(s) > 0)
       IN EnqueueKeys(IF live THEN Log(s, Head(map)[2]) ELSE s, edges, Tail(map))

\* Back in the editor without the redraw request
MapButtons_NoDirty(s, levels) ==
  LET edges == levels \ s.btnLast
      s1 == EnqueueKeys(s, edges, KeyMap(s.currentState))
  IN IF s.currentState = "TEXT_EDITOR" /\ "BACK" \in edges
     THEN SetScreen(s1, "FILE_BROWSER")
     ELSE s1

\* main.cpp:267-393  the button edges of this iteration
MapButtons(s, levels) ==
  LET edges == levels \ s.btnLast
      s1 == EnqueueKeys(s, edges, KeyMap(s.currentState))
  IN IF s.currentState = "TEXT_EDITOR" /\ "BACK" \in edges
     THEN [SetScreen(s1, "FILE_BROWSER") EXCEPT !.screenDirty = TRUE]
     ELSE s1
\* the short-press band with its upper end included
IsShortPress_Inclusive(duration) ==
  duration > SHORT_PRESS_MIN_MS /\ duration <= SHORT_PRESS_MAX_MS

IsShortPress(duration) == duration > SHORT_PRESS_MIN_MS /\ duration < SHORT_PRESS_MAX_MS

IsLongPress(held) == held > LONG_PRESS_MS

\* main.cpp:226-231  the button was just pressed
PowerPress(s, btnPower) ==
  IF btnPower /\ ~s.powerHeld
  THEN [s EXCEPT !.powerHeld = TRUE, !.sleepTriggered = FALSE,
                 !.powerPressStart = s.now, !.holdSleeps = 0]
  ELSE s

\* main.cpp:233-234  the condition of the long-press branch
PowerLongPress(s, btnPower) ==
  btnPower /\ s.powerHeld /\ ~s.sleepTriggered
  /\ IsLongPress(Elapsed(s.now, s.powerPressStart))

\* the long-press branch without the once-per-hold latch
TriggerSleep_NoLatch(s, suspends) ==
  enterDeepSleep(Log([s EXCEPT !.holdSleeps = @ + 1, !.powerLog.sleepCalled = TRUE],
                     "longPress"), suspends)

\* main.cpp:235-236  the long-press branch up to its return
TriggerSleep(s, suspends) ==
  enterDeepSleep(Log([s EXCEPT !.sleepTriggered = TRUE, !.holdSleeps = @ + 1,
                               !.powerLog.sleepCalled = TRUE], "longPress"), suspends)

\* the short press without the redraw request
ShortPressAction_NoDirty(s) ==
  IF s.currentState # "MAIN_MENU"
  THEN LET s1 == IF s.currentState = "TEXT_EDITOR" /\ s.unsaved
                 THEN [saveCurrentFile(Log(s, "save")) EXCEPT !.powerLog.saveCalled = TRUE]
                 ELSE s
       IN SetScreen(s1, "MAIN_MENU")
  ELSE s

\* main.cpp:248-254  the short press goes to the main menu
ShortPressAction(s) ==
  IF s.currentState # "MAIN_MENU"
  THEN LET s1 == IF s.currentState = "TEXT_EDITOR" /\ s.unsaved
                 THEN [saveCurrentFile(Log(s, "save")) EXCEPT !.powerLog.saveCalled = TRUE]
                 ELSE s
       IN [SetScreen(s1, "MAIN_MENU") EXCEPT !.screenDirty = TRUE]
  ELSE s

\* main.cpp:241-256  the button was released
PowerRelease(s, btnPower) ==
  IF ~btnPower /\ s.powerHeld
  THEN LET duration == Elapsed(s.now, s.powerPressStart)
           s1 == [s EXCEPT !.powerHeld = FALSE, !.powerLog.released = TRUE,
                           !.powerLog.duration = duration]
       IN IF ~s1.sleepTriggered /\ IsShortPress(duration)
          THEN ShortPressAction(s1)
          ELSE s1
  ELSE s

\* main.cpp:187-217  the six button levels of this iteration
ButtonLevels(s, in) ==
  IF s.currentState = "BLUETOOTH_SETTINGS"
  THEN LET btn1 == adcToButton1(readADCAvg(in.adc1))
           btn2 == adcToButton2(readADCAvg(in.adc2))
       IN {b \in Buttons : (b = "BACK" /\ btn1 = 0)
                            \/ (b = "CONFIRM" /\ btn1 = 1)
                            \/ (b = "LEFT" /\ btn1 = 2)
                            \/ (b = "RIGHT" /\ btn1 = 3)
                            \/ (b = "UP" /\ btn2 = 0)
                            \/ (b = "DOWN" /\ btn2 = 1)}
  ELSE in.pressed

\* the previous levels left as they were
UpdateLast_Stale(s, levels) == s

\* main.cpp:396-401  the levels of this iteration become the previous levels
UpdateLast(s, levels) == [s EXCEPT !.btnLast = levels]

\* main.cpp:177-402  powerLog.levels records the six levels the iteration sampled
processPhysicalButtons(s0, in) ==
  LET levels == ButtonLevels(s0, in)
      sA == [s0 EXCEPT !.powerLog = [power |-> in.power, released |-> FALSE, duration |-> 0,
                                     stateBefore |-> s0.currentState,
                                     stateAfter |-> s0.currentState,
                                     dirtyBefore |-> s0.screenDirty,
                                     dirtyAfter |-> s0.screenDirty,
                                     saveCalled |-> FALSE, sleepCalled |-> FALSE,
                                     levels |-> levels]]
      s1 == PowerPress(sA, in.power)
  IN IF PowerLongPress(s1, in.power)
     THEN TriggerSleep(s1, in.suspends)
     ELSE LET s2 == PowerRelease(s1, in.power)
              s3 == [s2 EXCEPT !.powerLog.stateAfter = s2.currentState,
                               !.powerLog.dirtyAfter = s2.screenDirty]
          IN UpdateLast(MapButtons(s3, levels), levels)

----------------------------------------------------------------------------
(* input_handler: processAllInput() drains the key queue and the BLE keyboard. *)
(* Its code is not part of the sources; what an event does to the session is   *)
(* taken from the specification (section 4.3).                                 *)

MaxBody == 2

GotoEvent(to) == [kind |-> "goto", to |-> to, file |-> << >>]
OpenEvent(f) == [kind |-> "open", to |-> "TEXT_EDITOR", file |-> f]
EditEvent == [kind |-> "edit", to |-> "TEXT_EDITOR", file |-> << >>]
\* a new note: create(), then the title screen, then the editor on confirming it
CreateEvent == [kind |-> "create", to |-> "NEW_FILE", file |-> << >>]
ConfirmEvent == [kind |-> "confirm", to |-> "TEXT_EDITOR", file |-> << >>]

ApplyEvent(s, e) ==
  CASE e.kind = "goto" ->
         IF e.to \in UIStates \ {"TEXT_EDITOR", s.currentState}
         THEN LET s1 == IF s.currentState = "TEXT_EDITOR" /\ s.unsaved
                        THEN saveCurrentFile(Log(s, "save"))
                        ELSE s
              IN [SetScreen(s1, e.to) EXCEPT !.screenDirty = TRUE]
         ELSE s
    [] e.kind = "open" ->
         IF s.currentState = "FILE_BROWSER"
            /\ \E i \in 1..Len(s.fileList) : s.fileList[i].filename = e.file
         THEN [loadFile(s, e.file) EXCEPT !.screenDirty = TRUE]
         ELSE s
    [] e.kind = "create" ->
         IF s.currentState \in {"MAIN_MENU", "FILE_BROWSER"}
         THEN [SetScreen(createNewFile(s, s.now), "NEW_FILE") EXCEPT !.screenDirty = TRUE]
         ELSE s
    [] e.kind = "confirm" ->
         IF s.currentState = "NEW_FILE"
         THEN [SetScreen(s, "TEXT_EDITOR") EXCEPT !.screenDirty = TRUE]
         ELSE s
    [] e.kind = "edit" ->
         IF s.currentState = "TEXT_EDITOR" /\ Len(s.buf) < MaxBody
         THEN [s EXCEPT !.buf = Append(@, "x"), !.unsaved = TRUE, !.screenDirty = TRUE]
         ELSE s
    [] OTHER -> s

RECURSIVE ApplyEvents(_, _)
ApplyEvents(s, events) ==
  IF events = << >> THEN s ELSE ApplyEvents(ApplyEvent(s, Head(events)), Tail(events))

QueuedKeys(s) == Cardinality({i \in 1..Len(s.trace) : s.trace[i] \in KeyEvents})

\* the number of events processAllInput() reports: a press and a release per
\* queued key, and the events of the BLE keyboard
EventsProcessed(s, events) == 2 * QueuedKeys(s) + Len(events)

processAllInput(s, events) == ApplyEvents(Log(s, "input"), events)
----------------------------------------------------------------------------
(* main.cpp: loop() *)

\* the entry test dropped: the side effects are polled in every iteration
EnteredBt_Always(s) == TRUE

\* main.cpp:456  the screen was entered since the previous iteration
EnteredBt(s) == s.lastState # "BLUETOOTH_SETTINGS"

\* main.cpp:465  the screen was left since the previous iteration
LeftBt(s) == s.lastState = "BLUETOOTH_SETTINGS"

\* main.cpp:451-469
ScanControl(s) ==
  LET s1 == IF s.currentState = "BLUETOOTH_SETTINGS"
            THEN LET a == [s EXCEPT !.autoReconnectEnabled = FALSE]
                 IN IF EnteredBt(a)
                    THEN LET b == Log(a, "cancelPending")
                         IN IF ~b.scanning
                            THEN [Log(b, "startScan") EXCEPT !.scanning = TRUE]
                            ELSE b
                    ELSE a
            ELSE LET a == [s EXCEPT !.autoReconnectEnabled = TRUE]
                 IN IF LeftBt(a) /\ a.scanning
                    THEN [Log(a, "stopScan") EXCEPT !.scanning = FALSE]
                    ELSE a
  IN [s1 EXCEPT !.lastState = s1.currentState]

\* the BLE transport's service call; a running scan may end inside it
bleLoop(s, scanEnds) ==
  [Log(s, "bleLoop") EXCEPT !.scanning = @ /\ ~scanEnds]

\* main.cpp:477-484
BtRefresh(s) ==
  IF s.currentState = "BLUETOOTH_SETTINGS"
     /\ Elapsed(s.now, s.lastBtRefresh) > BT_REFRESH_MS
  THEN [s EXCEPT !.lastBtRefresh = s.now, !.screenDirty = TRUE]
  ELSE s

registerActivity(s) == [s EXCEPT !.lastActivityTime = s.now]

\* main.cpp:491  the condition under which the iteration registers activity
ActivitySeen(wasAnyPressed, inputEventsProcessed) ==
  wasAnyPressed \/ inputEventsProcessed > 0

\* main.cpp:68-76  the screens the switch of updateScreen() has a case for
DrawnScreens == {"MAIN_MENU", "FILE_BROWSER", "TEXT_EDITOR", "RENAME_FILE", "SETTINGS",
                 "BLUETOOTH_SETTINGS"}

\* main.cpp:68-76  the draw call of the current screen; none in the default case
DrawScreen(s) == IF s.currentState \in DrawnScreens THEN Log(s, "draw") ELSE s

\* main.cpp:47-77  "render" marks the flag taken, "draw" the screen drawn
updateScreen(s) ==
  IF ~s.screenDirty THEN s
  ELSE DrawScreen(Log([s EXCEPT !.screenDirty = FALSE], "render"))

\* the render check with the limit reached, not exceeded
RenderCheck_AtLimit(s, passkey) ==
  LET criticalUpdate == s.currentState = "BLUETOOTH_SETTINGS" /\ passkey
      s1 == IF criticalUpdate THEN Log(s, "critical") ELSE s
  IN IF (criticalUpdate \/ Elapsed(s.now, s.lastScreenUpdate) >= SCREEN_UPDATE_MS)
        /\ s.screenDirty
     THEN [updateScreen(s1) EXCEPT !.lastScreenUpdate = s.now]
     ELSE s1

\* main.cpp:495-507  "critical" marks an iteration whose check found criticalUpdate
RenderCheck(s, passkey) ==
  LET criticalUpdate == s.currentState = "BLUETOOTH_SETTINGS" /\ passkey
      s1 == IF criticalUpdate THEN Log(s, "critical") ELSE s
  IN IF (criticalUpdate \/ Elapsed(s.now, s.lastScreenUpdate) > SCREEN_UPDATE_MS)
        /\ s.screenDirty
     THEN [updateScreen(s1) EXCEPT !.lastScreenUpdate = s.now]
     ELSE s1

\* the idle timeout compared with >= instead of >
IdleExpired_AtTimeout(s) == Elapsed(s.now, s.lastActivityTime) >= IDLE_TIMEOUT

\* main.cpp:510  the idle timeout has expired
IdleExpired(s) == Elapsed(s.now, s.lastActivityTime) > IDLE_TIMEOUT

\* main.cpp:509-512
IdleCheck(s, suspends) ==
  LET s1 == Log(s, "idleCheck")
  IN IF IdleExpired(s1)
     THEN enterDeepSleep(Log(s1, "idleSleep"), suspends)
     ELSE s1

\* One iteration of loop().  in.t is the millis() reading of the iteration; the
\* other fields of in are what the hardware and the BLE peer present to it.
loop(s, in) ==
  LET s0 == [s EXCEPT !.now = in.t, !.trace = << >>,
                      !.tickScreen = s.currentState, !.leftBtScanning = FALSE]
      s1 == ScanControl(s0)
      s2 == bleLoop(s1, in.scanEnds)
      s3 == BtRefresh(s2)
      s4 == processPhysicalButtons(s3, in)
  IN IF s4.asleep THEN s4
     ELSE LET s5 == processAllInput(s4, in.events)
              inputEventsProcessed == EventsProcessed(s4, in.events)
              s6 == IF ActivitySeen(in.wasAny, inputEventsProcessed)
                    THEN registerActivity(s5)
                    ELSE s5
              s7 == IF in.wasAny \/ QueuedKeys(s4) > 0 \/ in.events # << >>
                    THEN [s6 EXCEPT !.lastRegistered = s6.now]
                    ELSE s6
              s8 == RenderCheck(s7, in.passkey)
          IN IdleCheck(s8, in.suspends)

----------------------------------------------------------------------------
(* The state after setup() *)

NoteA == <<"a", ".", "t", "x", "t">>

InitDisk == (NoteA :> <<"t", LF, LF, "b">>)

NoPowerLog == [power |-> FALSE, released |-> FALSE, duration |-> 0,
               stateBefore |-> "MAIN_MENU", stateAfter |-> "MAIN_MENU",
               dirtyBefore |-> TRUE, dirtyAfter |-> TRUE,
               saveCalled |-> FALSE, sleepCalled |-> FALSE, levels |-> {}]

NoOp == [op |-> "none", file |-> << >>, title |-> << >>, at |-> 0, open |-> << >>, n |-> 0]

Boot(ok, d) ==
  refreshFileList(
    [ currentState |-> "MAIN_MENU", screenDirty |-> TRUE, lastState |-> "MAIN_MENU",
      autoReconnectEnabled |-> TRUE, scanning |-> FALSE, btnLast |-> {},
      powerHeld |-> FALSE, powerPressStart |-> 0, sleepTriggered |-> FALSE,
      lastActivityTime |-> 0, lastScreenUpdate |-> 0, lastBtRefresh |-> 0,
      now |-> 0, asleep |-> FALSE, trace |-> << >>, sdOK |-> ok, disk |-> d,
      fileList |-> << >>, curFile |-> << >>, curTitle |-> << >>, buf |-> << >>,
      unsaved |-> FALSE, savePc |-> "idle", crashed |-> FALSE, prevDisk |-> d,
      holdSleeps |-> 0, lastRegistered |-> 0, powerLog |-> NoPowerLog,
      tickScreen |-> "MAIN_MENU", leftBtScanning |-> FALSE,
      mainMenuSelection |-> 0, selectedFileIndex |-> 0, lastOp |-> NoOp,
      yielded |-> {} ])

Is(r) ==
  /\ currentState = r.currentState
  /\ screenDirty = r.screenDirty
  /\ lastState = r.lastState
  /\ autoReconnectEnabled = r.autoReconnectEnabled
  /\ scanning = r.scanning
  /\ btnLast = r.btnLast
  /\ powerHeld = r.powerHeld
  /\ powerPressStart = r.powerPressStart
  /\ sleepTriggered = r.sleepTriggered
  /\ lastActivityTime = r.lastActivityTime
  /\ lastScreenUpdate = r.lastScreenUpdate
  /\ lastBtRefresh = r.lastBtRefresh
  /\ now = r.now
  /\ asleep = r.asleep
  /\ trace = r.trace
  /\ sdOK = r.sdOK
  /\ disk = r.disk
  /\ fileList = r.fileList
  /\ curFile = r.curFile
  /\ curTitle = r.curTitle
  /\ buf = r.buf
  /\ unsaved = r.unsaved
  /\ savePc = r.savePc
  /\ crashed = r.crashed
  /\ prevDisk = r.prevDisk
  /\ holdSleeps = r.holdSleeps
  /\ lastRegistered = r.lastRegistered
  /\ powerLog = r.powerLog
  /\ tickScreen = r.tickScreen
  /\ leftBtScanning = r.leftBtScanning
  /\ mainMenuSelection = r.mainMenuSelection
  /\ selectedFileIndex = r.selectedFileIndex
  /\ lastOp = r.lastOp
  /\ yielded = r.yielded

Init == Is(Boot(TRUE, InitDisk))

Steady(v) == [i \in 1..ADC_SAMPLES |-> v]

Tick(in) ==
  /\ ~asleep
  /\ ~crashed
  /\ in.t > now
  /\ Install(loop(Cur, in))

AdcIdle == Steady(4095)
AdcBack == Steady(3000)

Input(t, power, pressed, adc1, events, wasAny, scanEnds, passkey, suspends) ==
  [t |-> t, power |-> power, pressed |-> pressed, adc1 |-> adc1, adc2 |-> AdcIdle,
   events |-> events, wasAny |-> wasAny, scanEnds |-> scanEnds, passkey |-> passkey,
   suspends |-> suspends]

\* gpio.wasAnyPressed(): a button that was up in the previous iteration is down
WasAnyPressed(power, pressed) == (power /\ ~powerHeld) \/ (pressed \ btnLast # {})

\* gpio.startDeepSleep() suspends the processor, or (hypothetically) returns.  The
\* outcome is drawn only in iterations that can call it: the power button is down
\* or the idle timeout has run out at the iteration's millis() reading.
SleepOutcomes(t, power) ==
  IF power \/ Elapsed(t, lastActivityTime) > IDLE_TIMEOUT THEN BOOLEAN ELSE {TRUE}

\* what one call of processAllInput() may work off: nothing, one event, or the
\* three events that open the note from the main menu and type into it
SessionEvents ==
  {<< >>, <<EditEvent>>, <<OpenEvent(NoteA)>>,
   <<GotoEvent("FILE_BROWSER"), OpenEvent(NoteA), EditEvent>>}
  \cup {<<GotoEvent(to)>> : to \in UIStates \ {"TEXT_EDITOR"}}

----------------------------------------------------------------------------
(* The power button: holds of every length around the three thresholds *)

FirstTick == 10

PowerClock == {0} \cup {FirstTick + d : d \in {0, 50, 51, 999, 1000, 5000, 5001, 6000}}

PowerTick ==
  \E t \in {c \in PowerClock : c > now} :
   \E power \in BOOLEAN, events \in SessionEvents :
    \E suspends \in SleepOutcomes(t, power) :
    Tick(Input(t, power, {}, AdcIdle, events, WasAnyPressed(power, {}),
               FALSE, FALSE, suspends))

NextPower == PowerTick

SpecPower == Init /\ [][NextPower]_vars

----------------------------------------------------------------------------
(* The session over ten minutes: idle timeout, long press, editor and Back *)

IdleClock == {0, FirstTick, 600000, 600001, FirstTick + 600000, FirstTick + 600001}

SessionTick ==
  \E t \in {c \in IdleClock : c > now} :
   \E power \in BOOLEAN, back \in BOOLEAN, events \in SessionEvents :
    \E suspends \in SleepOutcomes(t, power) :
    Tick(Input(t, power, IF back THEN {"BACK"} ELSE {}, AdcIdle, events,
               WasAnyPressed(power, IF back THEN {"BACK"} ELSE {}),
               FALSE, FALSE, suspends))

Next == SessionTick

Spec == Init /\ [][Next]_vars

----------------------------------------------------------------------------
(* The Bluetooth settings screen: entering, leaving and re-entering it *)

BleStep == 100

MaxBleTicks == 5

BleClock == {i * BleStep : i \in 0..MaxBleTicks}

BleScreens == {"MAIN_MENU", "SETTINGS", "BLUETOOTH_SETTINGS"}

\* what one call of processAllInput() may work off: up to two screen changes
BleEvents == {<< >>} \cup {<<GotoEvent(a)>> : a \in BleScreens}
             \cup {<<GotoEvent(a), GotoEvent(b)>> : a \in BleScreens, b \in BleScreens}

BleTick ==
  \E t \in {c \in BleClock : c = now + BleStep} :
   \E power \in BOOLEAN, adc1 \in {AdcIdle, AdcBack},
      events \in BleEvents, scanEnds \in BOOLEAN :
    Tick(Input(t, power, {}, adc1, events, WasAnyPressed(power, {}),
               scanEnds, FALSE, TRUE))

NextBle == BleTick

SpecBle == Init /\ [][NextBle]_vars

----------------------------------------------------------------------------
(* Power loss during saveCurrentFile(): the save advances one file operation *)
(* at a time and the power may fail between any two of them                  *)

NoteB == <<"b", ".", "t", "x", "t">>

CrashContents == { <<"t", LF, LF, "b">>, <<"t", LF, LF>>, <<"t", "u", LF, LF, "b">>,
                   <<"t", CR, LF, CR, LF, "b">>, <<"l", "e", "g", "a", "c", "y">> }

CrashInit ==
  \E x \in CrashContents, other \in BOOLEAN :
    LET d == IF other THEN (NoteA :> x) @@ (NoteB :> <<"o", LF, LF, "p">>)
             ELSE (NoteA :> x)
    IN Is([loadFile(Boot(TRUE, d), NoteA) EXCEPT !.screenDirty = TRUE])

CrashEdit ==
  /\ ~crashed /\ savePc = "idle"
  /\ currentState = "TEXT_EDITOR" /\ Len(buf) < MaxBody
  /\ Install(ApplyEvent(Cur, EditEvent))

CrashSaveCall ==
  /\ ~crashed /\ savePc = "idle"
  /\ currentState = "TEXT_EDITOR" /\ unsaved
  /\ Install(SaveEnter(Cur))

CrashSaveStep ==
  /\ ~crashed /\ savePc # "idle"
  /\ Install(SaveStep(Cur))

\* the power fails inside save(); the files are left as they are
PowerLoss ==
  /\ ~crashed /\ savePc # "idle"
  /\ Install([Cur EXCEPT !.crashed = TRUE])

NextCrash == CrashEdit \/ CrashSaveCall \/ CrashSaveStep \/ PowerLoss

SpecCrash == CrashInit /\ [][NextCrash]_vars

----------------------------------------------------------------------------
(* load(x), save(), load() on one note file x *)

RtMaxLen == 5

RtChars == {"a", LF, CR}

RECURSIVE SeqsUpTo(_, _)
SeqsUpTo(cs, n) ==
  IF n = 0 THEN {<< >>}
  ELSE LET shorter == SeqsUpTo(cs, n - 1)
       IN shorter \cup {Append(q, c) : q \in {r \in shorter : Len(r) = n - 1}, c \in cs}

Rep(c, n) == [i \in 1..n |-> c]

\* files whose title line is around the title capacity, and files beyond the
\* buffer capacity
LongFiles ==
  {Rep("a", n) \o sep \o body :
     n \in (MAX_TITLE_LEN - 2)..(MAX_TITLE_LEN + 1),
     sep \in {<<LF, LF>>, <<CR, LF, CR, LF>>, <<LF, LF, LF>>},
     body \in {<< >>, <<"b">>, <<"b", LF, "c">>}}
  \cup {<<"a", LF, LF>> \o Rep("b", n) : n \in (TEXT_BUFFER_SIZE - 4)..TEXT_BUFFER_SIZE}

NoteFiles == SeqsUpTo(RtChars, RtMaxLen) \cup LongFiles

RtInit == \E x \in NoteFiles : Is(Boot(TRUE, (NoteA :> x)))

RtLoad ==
  /\ trace \in {<< >>, <<"load", "save">>}
  /\ Install(Log(loadFile(Cur, NoteA), "load"))

RtSave ==
  /\ trace = <<"load">>
  /\ Install(Log(saveCurrentFile(Cur), "save"))

NextRoundTrip == RtLoad \/ RtSave

SpecRoundTrip == RtInit /\ [][NextRoundTrip]_vars

----------------------------------------------------------------------------
(* Properties of the power button *)

\* C3: during one continuous hold of the power button, the power-button logic has
\* called enterDeepSleep exactly once as soon as an iteration saw the hold exceed
\* 5000 ms, and not at all before; later iterations of the same hold add no call.
C3_SleepOncePerHold ==
  (powerHeld /\ powerLog.power)
    => holdSleeps = (IF now - powerPressStart > 5000 THEN 1 ELSE 0)

\* the button is still held in an iteration after the one that triggered sleep
C3_Witness ==
  /\ powerHeld /\ powerLog.power /\ ~asleep
  /\ holdSleeps = 1 /\ ~powerLog.sleepCalled
  /\ now - powerPressStart > 5000

\* C4: a release after a hold of at most 50 ms, or of 1000..5000 ms, does nothing:
\* the power-button logic leaves the screen as it was, calls no save and has not
\* entered deep sleep in that hold.
C4_DeadZoneNoAction ==
  (powerLog.released
     /\ (powerLog.duration <= 50
          \/ (powerLog.duration >= 1000 /\ powerLog.duration <= 5000)))
    => /\ powerLog.stateAfter = powerLog.stateBefore
       /\ ~powerLog.saveCalled
       /\ ~powerLog.sleepCalled
       /\ holdSleeps = 0

\* a 1000 ms hold released in the editor
C4_Witness ==
  /\ powerLog.released /\ powerLog.duration = 1000
  /\ powerLog.stateBefore = "TEXT_EDITOR"
  /\ "input" \in {trace[i] : i \in 1..Len(trace)}

\* C5: a release after a hold of more than 50 and less than 1000 ms, with no sleep
\* triggered in that hold, takes every screen but MAIN_MENU to MAIN_MENU within the
\* power-button logic of that iteration and sets screenDirty; on MAIN_MENU it
\* changes nothing.
C5_ShortPressToMenu ==
  (powerLog.released /\ powerLog.duration > 50 /\ powerLog.duration < 1000
     /\ holdSleeps = 0)
    => IF powerLog.stateBefore # "MAIN_MENU"
       THEN powerLog.stateAfter = "MAIN_MENU" /\ powerLog.dirtyAfter
       ELSE /\ powerLog.stateAfter = "MAIN_MENU"
            /\ powerLog.dirtyAfter = powerLog.dirtyBefore
            /\ ~powerLog.saveCalled

\* a short press on a rendered Bluetooth screen
C5_Witness ==
  /\ powerLog.released /\ powerLog.duration > 50 /\ powerLog.duration < 1000
  /\ powerLog.stateBefore = "BLUETOOTH_SETTINGS"
  /\ ~powerLog.dirtyBefore /\ powerLog.dirtyAfter
  /\ powerLog.stateAfter = "MAIN_MENU"

----------------------------------------------------------------------------
(* Properties of the session *)

TraceSet == {trace[i] : i \in 1..Len(trace)}

\* C8: an iteration cancels the pending connection or starts a scan only when it
\* finds the screen on BLUETOOTH_SETTINGS and the previous iteration did not, and
\* it starts a scan only when none is running; so no iteration does either while
\* the screen stays on BLUETOOTH_SETTINGS, whatever happened in between.
C8_ScanStartOnlyOnEntry ==
  [][/\ ("startScan" \in TraceSet' \/ "cancelPending" \in TraceSet')
          => (currentState = "BLUETOOTH_SETTINGS" /\ tickScreen # "BLUETOOTH_SETTINGS")
     /\ "startScan" \in TraceSet' => ~scanning]_vars

\* the screen stayed on BLUETOOTH_SETTINGS after its scan ended by itself
C8_Witness ==
  /\ currentState = "BLUETOOTH_SETTINGS" /\ tickScreen = "BLUETOOTH_SETTINGS"
  /\ lastState = "BLUETOOTH_SETTINGS"
  /\ ~scanning
  /\ "bleLoop" \in TraceSet /\ "startScan" \notin TraceSet
  /\ "cancelPending" \notin TraceSet

\* C9: when the screen left BLUETOOTH_SETTINGS during a scan, the next iteration
\* stops the scan (which it does before it calls bleLoop).
C9_ScanStoppedOnLeave ==
  [][(leftBtScanning /\ now' # now) => "stopScan" \in TraceSet']_vars

\* C2: when the screen is TEXT_EDITOR with unsaved changes and the store works,
\* the next iteration that ends on another screen ends with the changes saved.
C2_SaveBeforeLeavingEditor ==
  [][(currentState = "TEXT_EDITOR" /\ unsaved /\ sdOK
        /\ currentState' # "TEXT_EDITOR")
       => ~unsaved']_vars

SleepWithSave == <<"sleepNotice", "save", "displayOff", "suspend">>

SleepNoSave == <<"sleepNotice", "displayOff", "suspend">>

\* C7: each trigger of deep sleep (idle timeout or long press) is followed at once
\* by the sleep notice, the save of the open note when the screen is TEXT_EDITOR
\* and the note has unsaved changes, the display power-down and the suspension,
\* in this order, with nothing in between and no way out.
C7_SleepSequence ==
  \A i \in 1..Len(trace) :
    trace[i] \in {"idleSleep", "longPress"}
      => LET rest == SubSeq(trace, i + 1, Len(trace))
         IN /\ (Take(rest, 4) = SleepWithSave \/ Take(rest, 3) = SleepNoSave)
            /\ (asleep /\ Len(rest) = 3)
                 => (rest = SleepNoSave /\ ~(currentState = "TEXT_EDITOR" /\ unsaved))
            /\ (asleep /\ Len(rest) # 3)
                 => (rest = SleepWithSave /\ currentState = "TEXT_EDITOR"
                     /\ (sdOK => ~unsaved))

\* the device went to sleep from the editor and saved the note on the way
C7_Witness ==
  /\ asleep
  /\ currentState = "TEXT_EDITOR"
  /\ Len(trace) >= 5
  /\ SubSeq(trace, Len(trace) - 3, Len(trace)) = SleepWithSave
  /\ trace[Len(trace) - 4] = "longPress"

----------------------------------------------------------------------------
(* Properties of the store *)

NewContent == curTitle \o <<LF, LF>> \o buf

\* C1: when the power fails inside save() of a note that was on the disk, the file
\* under the note's name holds the complete previous or the complete new content.
C1_CrashSafeSave ==
  (crashed /\ FsExists(prevDisk, curFile))
    => /\ FsExists(disk, curFile)
       /\ disk[curFile] \in {prevDisk[curFile], NewContent}

LineBreaks == {LF, CR}

FirstLineBreak(x) ==
  IF \E i \in 1..Len(x) : x[i] \in LineBreaks
  THEN CHOOSE i \in 1..Len(x) : x[i] \in LineBreaks /\ \A j \in 1..(i - 1) : x[j] \notin LineBreaks
  ELSE Len(x) + 1

\* the title line of a file: its text up to the first line break
TitleLineOf(x) == SubSeq(x, 1, FirstLineBreak(x) - 1)

\* the line breaks that follow the title line
SeparatorOf(x) ==
  SubSeq(x, Len(TitleLineOf(x)) + 1, SkipWhile(x, Len(TitleLineOf(x)) + 1, LineBreaks) - 1)

\* what follows the separator
BodyOf(x) == Drop(x, Len(TitleLineOf(x)) + Len(SeparatorOf(x)))

\* a non-empty title line, its line end and at least one blank line, then the body
WellFormed(x) ==
  /\ TitleLineOf(x) # << >>
  /\ Cardinality({i \in 1..Len(SeparatorOf(x)) : SeparatorOf(x)[i] = LF}) >= 2

TheFile == prevDisk[NoteA]

InCapacity(x) == Len(x) <= TEXT_BUFFER_SIZE - 1

\* C10 as stated: for a well-formed file within the buffer capacity, the first
\* load yields the title line and the body of the file, and the load after the
\* save yields the same two.
C10_RoundTripExact ==
  (trace \in {<<"load">>, <<"load", "save", "load">>}
     /\ WellFormed(TheFile) /\ InCapacity(TheFile))
    => (curTitle = TitleLineOf(TheFile) /\ buf = BodyOf(TheFile))

\* C10 as amended: the first load yields the body of the file and its title line
\* cut to the title capacity of MAX_TITLE_LEN - 1 bytes (the whole title line
\* when it fits), and the load after the save yields the same two.
C10_RoundTrip ==
  (trace \in {<<"load">>, <<"load", "save", "load">>}
     /\ WellFormed(TheFile) /\ InCapacity(TheFile))
    => /\ curTitle = Take(TitleLineOf(TheFile), MAX_TITLE_LEN - 1)
       /\ buf = BodyOf(TheFile)
       /\ Len(TitleLineOf(TheFile)) <= MAX_TITLE_LEN - 1 => curTitle = TitleLineOf(TheFile)

\* the round trip of a file with CR LF line ends, two blank lines and a body:
\* the save rewrote the file and the second load gave the same title and body
C10_Witness ==
  /\ trace = <<"load", "save", "load">>
  /\ WellFormed(TheFile) /\ InCapacity(TheFile)
  /\ Len(SeparatorOf(TheFile)) > 2
  /\ BodyOf(TheFile) # << >>
  /\ disk[NoteA] # TheFile
  /\ disk[NoteA] = TitleLineOf(TheFile) \o <<LF, LF>> \o BodyOf(TheFile)

----------------------------------------------------------------------------
(* load() of one note file while another note may be open *)

LoadInit ==
  \E x \in NoteFiles, open \in BOOLEAN, dirty \in BOOLEAN :
    Is([Boot(TRUE, (NoteA :> x) @@ (NoteB :> <<"o", LF, LF, "p">>))
          EXCEPT !.currentState = "FILE_BROWSER",
                 !.curFile = IF open THEN NoteB ELSE << >>,
                 !.curTitle = IF open THEN <<"o">> ELSE << >>,
                 !.buf = IF open THEN <<"p", "q">> ELSE << >>,
                 !.unsaved = open /\ dirty])

LoadNote ==
  /\ trace = << >>
  /\ Install(Log(loadFile(Cur, NoteA), "load"))

NextLoad == LoadNote

SpecLoad == LoadInit /\ [][NextLoad]_vars

\* position of the first line feed of x, 0 when it has none
FirstLF(x) ==
  IF \E i \in 1..Len(x) : x[i] = LF
  THEN CHOOSE i \in 1..Len(x) : x[i] = LF /\ \A j \in 1..(i - 1) : x[j] # LF
  ELSE 0

\* x without the carriage returns at its end
NoTrailingCR(x) ==
  IF \E n \in 0..Len(x) : (n = 0 \/ x[n] # CR) /\ \A j \in (n + 1)..Len(x) : x[j] = CR
  THEN SubSeq(x, 1, CHOOSE n \in 0..Len(x) :
                      (n = 0 \/ x[n] # CR) /\ \A j \in (n + 1)..Len(x) : x[j] = CR)
  ELSE x

\* x after its first line and the line breaks that directly follow it
AfterFirstLine(x) ==
  LET rest == SubSeq(x, FirstLF(x) + 1, Len(x))
      k == CHOOSE n \in 0..Len(rest) :
             /\ \A j \in 1..n : rest[j] \in LineBreaks
             /\ (n < Len(rest) => rest[n + 1] \notin LineBreaks)
  IN SubSeq(rest, k + 1, Len(rest))

\* the split of content x into <<title, body>> with the title cut to cap bytes
SplitOf(x, cap) ==
  IF FirstLF(x) > 1
  THEN <<NoTrailingCR(Take(SubSeq(x, 1, FirstLF(x) - 1), cap)), AfterFirstLine(x)>>
  ELSE <<Untitled, x>>

LoadedNote ==
  /\ curFile = NoteA
  /\ ~unsaved
  /\ currentState = "TEXT_EDITOR"

\* C11 as stated: after load() the title and body are the split of the whole
\* content of the file (the first line without trailing carriage returns and all
\* that follows the blank lines after it, or "Untitled" and the entire content),
\* the note is the open note, its unsaved flag is clear and the screen is TEXT_EDITOR.
C11_LoadSplitExact ==
  (trace = <<"load">>)
    => /\ <<curTitle, buf>> = SplitOf(TheFile, Len(TheFile))
       /\ LoadedNote

\* C11 as amended: the same split, taken of the first TEXT_BUFFER_SIZE - 1 bytes of
\* the file, with the first line cut to MAX_TITLE_LEN - 1 bytes before its trailing
\* carriage returns are dropped.
C11_LoadSplit ==
  (trace = <<"load">>)
    => /\ <<curTitle, buf>> = SplitOf(Take(TheFile, TEXT_BUFFER_SIZE - 1), MAX_TITLE_LEN - 1)
       /\ LoadedNote

\* a legacy file without any newline was loaded over an open note with unsaved changes
C11_Witness ==
  /\ trace = <<"load">>
  /\ prevDisk[NoteA] # << >> /\ FirstLF(prevDisk[NoteA]) = 0
  /\ curTitle = Untitled /\ buf = prevDisk[NoteA]
  /\ LoadedNote

----------------------------------------------------------------------------
(* Rename of a note from the file browser: updateFileTitle()               *)

MaxGarbage == 1

Filler == <<"f", LF, LF, "g">>

ShortBase == <<"b">>
LongBase == [i \in 1..(MAX_FILENAME_LEN - 5) |-> "a"]

\* base_k.txt as the specification spells it
NameK(base, k) == base \o <<"_">> \o Dec(k) \o DotTxt

\* base.txt and base_2.txt .. base_n.txt
TakenNames(base, n) ==
  (IF n >= 1 THEN {base \o DotTxt} ELSE {}) \cup {NameK(base, k) : k \in 2..n}

TakenCounts == {0, 1, 2, MAX_SUFFIX}

RenameContents ==
  { <<"t", LF, LF, "x", "y">>, <<"t", CR, LF, CR, LF, "x">>, <<"t", LF, "x">>,
    <<"l", "e", "g", "a", "c", "y">>, <<LF, "x">> }

RenameTitles ==
  { <<"b">>, <<"B", "!">>, <<"a">>, LongBase, << >> }

RenameDisk(x, n, long) ==
  LET names == {NoteA} \cup TakenNames(ShortBase, n)
                 \cup (IF long THEN {LongBase \o DotTxt} ELSE {})
  IN [f \in names |-> IF f = NoteA THEN x ELSE Filler]

RenameInit ==
  \E x \in RenameContents, n \in TakenCounts, long \in BOOLEAN, open \in BOOLEAN :
    Is([(IF open THEN loadFile(Boot(TRUE, RenameDisk(x, n, long)), NoteA)
                 ELSE Boot(TRUE, RenameDisk(x, n, long)))
          EXCEPT !.currentState = "FILE_BROWSER"])

\* the notes the browser can rename: the listed ones and the open one
RenameTargets ==
  {fileList[i].filename : i \in 1..Len(fileList)} \cup (IF curFile # << >> THEN {curFile} ELSE {})

\* the state a call into the store starts from: the call, the notes directory and
\* the open note's filename at that moment are kept for reference
Call(op, file, title, at) ==
  [Cur EXCEPT !.prevDisk = disk,
              !.lastOp = [op |-> op, file |-> file, title |-> title, at |-> at,
                          open |-> curFile, n |-> lastOp.n + 1]]

\* the uninitialised bytes strlen(base) may count: none when the slug is shorter
\* than MAX_FILENAME_LEN - 1 and strncpy() has written the terminator
Garbage(title) ==
  IF Len(titleToFilename(title, MAX_FILENAME_LEN)) < MAX_FILENAME_LEN - 1
  THEN {0}
  ELSE 0..MaxGarbage

RenameNote ==
  /\ trace = << >>
  /\ \E f \in RenameTargets :
      \E title \in RenameTitles :
       \E garbage \in Garbage(title) :
        Install(Log(updateFileTitle(Call("rename", f, title, 0), f, title, garbage), "rename"))

NextRename == RenameNote

SpecRename == RenameInit /\ [][NextRename]_vars

Slug == titleToFilename(lastOp.title, MAX_FILENAME_LEN)
SlugBase == Take(Slug, Len(Slug) - 4)

\* the suffixes k in [2, 99] whose base_k.txt was not in use when the rename began
FreeSuffixes == {k \in 2..MAX_SUFFIX : ~FsExists(prevDisk, NameK(SlugBase, k))}

SmallestFree == CHOOSE k \in FreeSuffixes : \A j \in FreeSuffixes : k <= j

\* a rename of an existing note whose new title's slug differs from its filename
Renaming ==
  /\ lastOp.op = "rename"
  /\ FsExists(prevDisk, lastOp.file)
  /\ Slug # lastOp.file

\* C12: a rename whose slug base.txt differs from the note's filename moves the note
\* to base.txt when that name is free, and otherwise to base_k.txt for the smallest
\* k in [2, 99] whose base_k.txt is not in use.
C12_RenameTarget ==
  (Renaming /\ (FsExists(prevDisk, Slug) => FreeSuffixes # {}))
    => LET target == IF FsExists(prevDisk, Slug) THEN NameK(SlugBase, SmallestFree) ELSE Slug
       IN DOMAIN disk = ((DOMAIN prevDisk) \ {lastOp.file}) \cup {target}

\* C12 for slugs whose suffixed names fit a filename: the same target rule
C12_RenameTargetShort ==
  (Renaming /\ (FsExists(prevDisk, Slug) => FreeSuffixes # {})
            /\ Len(Slug) + 3 <= MAX_FILENAME_LEN - 1)
    => LET target == IF FsExists(prevDisk, Slug) THEN NameK(SlugBase, SmallestFree) ELSE Slug
       IN DOMAIN disk = ((DOMAIN prevDisk) \ {lastOp.file}) \cup {target}

C12_ReachedSuffix ==
  /\ Renaming
  /\ FsExists(prevDisk, Slug)
  /\ FsExists(prevDisk, NameK(SlugBase, 2))
  /\ FsExists(disk, NameK(SlugBase, 3))
  /\ ~FsExists(disk, lastOp.file)

\* every name the rename may use is taken: base.txt and base_2.txt .. base_99.txt
AllTaken == FsExists(prevDisk, Slug) /\ FreeSuffixes = {}

\* C13: when base.txt and base_2.txt .. base_99.txt are all taken the rename is
\* abandoned: the note stays under its original filename with the new title as its
\* first line, no name of the directory changes, and the open note's filename is
\* the one it was.
C13_RenameAbandoned ==
  (Renaming /\ AllTaken)
    => /\ DOMAIN disk = DOMAIN prevDisk
       /\ Take(disk[lastOp.file], Len(lastOp.title) + 1) = lastOp.title \o <<LF>>
       /\ curFile = lastOp.open

\* C13, the part about the files: the note keeps its name and gets the new title
C13_FilesKept ==
  (Renaming /\ AllTaken)
    => /\ DOMAIN disk = DOMAIN prevDisk
       /\ Take(disk[lastOp.file], Len(lastOp.title) + 1) = lastOp.title \o <<LF>>

C13_ReachedAllTaken == Renaming /\ AllTaken /\ curFile = NameK(SlugBase, MAX_SUFFIX)

\* the body load() yields for a file of content x
LoadedBody(x) == loadFile(Boot(TRUE, (NoteA :> x)), NoteA).buf

\* the name the renamed note is stored under after the call
NoteNow ==
  IF FsExists(disk, lastOp.file) THEN lastOp.file
  ELSE CHOOSE n \in DOMAIN disk : n \notin DOMAIN prevDisk

Renamed == lastOp.op = "rename" /\ FsExists(prevDisk, lastOp.file)

\* C14: for every note file load() accepts, a file without any newline included,
\* the body load() yields after rename(filename, newTitle) is byte-identical to the
\* body load() yielded before it.
C14_RenameKeepsBody ==
  Renamed => LoadedBody(disk[NoteNow]) = LoadedBody(prevDisk[lastOp.file])

\* C14 for the files that start with a non-empty line ended by a line feed, given
\* a new title that is not empty
C14_RenameKeepsBodyTitled ==
  (Renamed /\ Strchr(prevDisk[lastOp.file], LF) > 1 /\ lastOp.title # << >>)
    => LoadedBody(disk[NoteNow]) = LoadedBody(prevDisk[lastOp.file])

C14_ReachedLegacy ==
  /\ Renamed
  /\ Strchr(prevDisk[lastOp.file], LF) = 0
  /\ LoadedBody(prevDisk[lastOp.file]) # << >>
  /\ LoadedBody(disk[NoteNow]) = << >>

----------------------------------------------------------------------------
(* The slug of a title: titleToFilename()                                  *)

SlugChars == {"a", "Z", "7", SP, "_", "-", "!"}
SlugMaxLen == 4

\* titles that reach the cut at MAX_FILENAME_LEN - 5 slug characters
LongTitles ==
  { LongBase \o <<"b">>,
    Rep("a", MAX_FILENAME_LEN - 6) \o <<SP, "b">>,
    Rep("a", MAX_FILENAME_LEN - 7) \o <<"-", "_", "b", "c">>,
    Rep("!", MAX_FILENAME_LEN) \o <<"Z">> }

SlugTitles == SeqsUpTo(SlugChars, SlugMaxLen) \cup LongTitles

SlugInit ==
  \E title \in SlugTitles :
    Is([Boot(TRUE, (NoteA :> << >>)) EXCEPT !.lastOp = [NoOp EXCEPT !.op = "title", !.title = title]])

Slugify ==
  /\ lastOp.op = "title"
  /\ lastOp' = [lastOp EXCEPT !.op = "slug",
                              !.file = titleToFilename(lastOp.title, MAX_FILENAME_LEN)]
  /\ UNCHANGED << currentState, screenDirty, lastState, autoReconnectEnabled, scanning,
                  btnLast, powerHeld, powerPressStart, sleepTriggered, lastActivityTime,
                  lastScreenUpdate, lastBtRefresh, now, asleep, trace, sdOK, disk,
                  fileList, curFile, curTitle, buf, unsaved, savePc, crashed, prevDisk,
                  holdSleeps, lastRegistered, powerLog, tickScreen, leftBtScanning,
                  mainMenuSelection, selectedFileIndex, yielded >>

NextSlug == Slugify

SpecSlug == SlugInit /\ [][NextSlug]_vars

SlugAlphabet == Range(LowerCase) \cup Range(Digits) \cup {"_"}

\* C15: for every title the derived filename ends in ".txt" and its base is not
\* empty, is made only of lowercase ASCII letters, digits and underscores, has no
\* leading underscore, no trailing underscore and no two adjacent underscores, and
\* is "note" when the title holds no letter or digit.
C15_SlugShape ==
  lastOp.op = "slug"
    => LET f == lastOp.file
           base == Take(f, Len(f) - 4)
       IN /\ EndsWith(f, DotTxt)
          /\ base # << >>
          /\ \A i \in 1..Len(base) : base[i] \in SlugAlphabet
          /\ base[1] # "_"
          /\ base[Len(base)] # "_"
          /\ \A i \in 1..(Len(base) - 1) : ~(base[i] = "_" /\ base[i + 1] = "_")
          /\ Len(base) <= MAX_FILENAME_LEN - 5
          /\ (\A i \in 1..Len(lastOp.title) : lastOp.title[i] \in {SP, "_", "-", "!"})
               => base = NoteBase

C15_Witness ==
  /\ lastOp.op = "slug"
  /\ lastOp.title = <<"Z", "_", SP, "7">>
  /\ lastOp.file = <<"z", "_", "7">> \o DotTxt

----------------------------------------------------------------------------
(* The note store in use: calls into file_manager.cpp from any screen, with *)
(* the card removed and put back, the counter file lost, and restarts      *)

MaxStoreOps == 4
StoreClock == {1, 2}

LongName == Rep("c", MAX_FILENAME_LEN) \o DotTxt
ReadMe == <<"r", ".", "m", "d">>
NoteC == <<"c", ".", "t", "x", "t">>
NoteD == <<"d", ".", "t", "x", "t">>
Plain == <<"t", LF, LF, "x">>

\* the name of the note that createNewFile() yields first at millis() = 1
FirstNote == NewNoteName(1, 1)

StoreDisks ==
  { (NoteA :> Plain),
    (NoteA :> Plain) @@ (NoteB :> Filler) @@ (ReadMe :> Filler) @@ (TmpName(NoteB) :> Filler),
    (NoteA :> Plain) @@ (CounterFile :> <<"7">>),
    (NoteA :> Plain) @@ (FirstNote :> Filler),
    (NoteA :> Plain) @@ (NoteB :> Filler) @@ (NoteC :> Filler) @@ (NoteD :> Filler),
    (NoteA :> Plain) @@ (LongName :> Filler) }

StoreInit ==
  \E d \in StoreDisks : Is([Boot(TRUE, d) EXCEPT !.currentState = "FILE_BROWSER"])

MoreCalls == lastOp.n < MaxStoreOps /\ savePc = "idle" /\ ~crashed /\ ~asleep

StoreLoad ==
  /\ MoreCalls
  /\ \E f \in RenameTargets :
       Install(loadFile(Call("load", f, << >>, now), f))

StoreEdit ==
  /\ MoreCalls
  /\ currentState = "TEXT_EDITOR" /\ Len(buf) < MaxBody
  /\ Install(ApplyEvent(Call("edit", curFile, << >>, now), EditEvent))

StoreSave ==
  /\ MoreCalls
  /\ Install(saveCurrentFile(Call("save", curFile, << >>, now)))

StoreTitles == {<<"B">>}

StoreRename ==
  /\ MoreCalls
  /\ \E f \in RenameTargets :
      \E title \in StoreTitles :
       \E garbage \in Garbage(title) :
        Install(updateFileTitle(Call("rename", f, title, now), f, title, garbage))

StoreDelete ==
  /\ MoreCalls
  /\ \E f \in RenameTargets :
       Install(deleteFile(Call("delete", f, << >>, now), f))

\* a create is called at a later millis() than anything before it since the start
StoreCreate ==
  /\ MoreCalls
  /\ \E t \in {c \in StoreClock : c > now} :
       Install(createNewFile([Call("create", << >>, << >>, t) EXCEPT !.now = t], t))

StoreList ==
  /\ MoreCalls
  /\ Install(refreshFileList(Call("list", << >>, << >>, now)))

\* main.cpp:323-326  Back in the editor
StoreBack ==
  /\ MoreCalls
  /\ currentState = "TEXT_EDITOR"
  /\ Install([Call("back", << >>, << >>, now) EXCEPT !.currentState = "FILE_BROWSER",
                                                     !.screenDirty = TRUE])

\* the card is pulled out or pushed back in
CardChange ==
  /\ MoreCalls
  /\ Install([Call("card", << >>, << >>, now) EXCEPT !.sdOK = ~sdOK])

\* the counter file is deleted while the card is in another machine
CounterLost ==
  /\ MoreCalls
  /\ FsExists(disk, CounterFile)
  /\ Install([Call("counterLost", << >>, << >>, now) EXCEPT !.disk = FsRemove(disk, CounterFile)])

\* power cycle: setup() runs again, millis() starts again
Restart ==
  /\ MoreCalls
  /\ lastOp.op # "restart"
  /\ Install([Boot(sdOK, disk) EXCEPT !.lastOp = Call("restart", << >>, << >>, 0).lastOp,
                                      !.prevDisk = disk,
                                      !.yielded = yielded])

NextStore ==
  \/ StoreLoad \/ StoreEdit \/ StoreSave \/ StoreRename \/ StoreDelete \/ StoreCreate
  \/ StoreList \/ StoreBack \/ CardChange \/ CounterLost \/ Restart

SpecStore == StoreInit /\ [][NextStore]_vars

\* the step is a call of op made while the store was unavailable
CallWithoutStore(ops) == ~sdOK /\ lastOp'.n = lastOp.n + 1 /\ lastOp'.op \in ops

\* C16: with the store unavailable, each of load, save, rename and delete leaves the
\* screen, the open note's filename, title, buffer content and unsaved flag, and
\* the selection cursors as they were before the call.
C16_UnavailableNoOp ==
  [][CallWithoutStore({"load", "save", "rename", "delete"})
       => /\ currentState' = currentState
          /\ curFile' = curFile
          /\ curTitle' = curTitle
          /\ buf' = buf
          /\ unsaved' = unsaved
          /\ mainMenuSelection' = mainMenuSelection
          /\ selectedFileIndex' = selectedFileIndex]_vars

C16_Witness ==
  /\ ~sdOK
  /\ lastOp.op = "save"
  /\ lastOp.file = FirstNote
  /\ curFile = FirstNote
  /\ unsaved
  /\ ~FsExists(disk, FirstNote)

\* C17: a directory scan that fails at opening the notes directory leaves the Note
\* Index with exactly the entries it held before the scan started.
C17_FailedScanKeepsIndex ==
  [][CallWithoutStore({"list"}) => fileList' = fileList]_vars

C17_ReachedEmptied ==
  /\ ~sdOK
  /\ lastOp.op = "list"
  /\ fileList = << >>
  /\ FsExists(disk, NoteA)

CreateCall == lastOp'.n = lastOp.n + 1 /\ lastOp'.op = "create"

\* the counter createNewFile() finds: 0 when the counter file is missing
PersistedCounter == IF FsExists(disk, CounterFile) THEN Atoi(disk[CounterFile]) ELSE 0

\* C18: each create() on an available store writes back the persisted counter plus
\* one (0 taken for a missing counter file); every create() yields a filename that
\* differs from every filename an earlier create() yielded and from every file in
\* the store, makes the new empty note the open note with title "Untitled" and the
\* unsaved flag set, and leaves the screen as it was.
C18_CreateFresh ==
  [][CreateCall
       => /\ sdOK => disk' = FsWrite(disk, CounterFile, Dec(PersistedCounter + 1))
          /\ curFile' \notin yielded
          /\ curFile' \notin DOMAIN disk
          /\ buf' = << >>
          /\ curTitle' = Untitled
          /\ unsaved'
          /\ currentState' = currentState]_vars

\* C18 without the part about the filename
C18_CreateOpensNote ==
  [][CreateCall
       => /\ sdOK => disk' = FsWrite(disk, CounterFile, Dec(PersistedCounter + 1))
          /\ buf' = << >>
          /\ curTitle' = Untitled
          /\ unsaved'
          /\ currentState' = currentState]_vars

C18_ReachedClash ==
  /\ lastOp.op = "create"
  /\ curFile = FirstNote
  /\ FsExists(prevDisk, FirstNote)
  /\ disk[CounterFile] = <<"1">>

\* the files the index is to list: no leading dot, ending in ".txt"
Qualifying(d) == {n \in DOMAIN d : n[1] # "." /\ EndsWith(n, DotTxt)}

Listed == {fileList[i].filename : i \in 1..Len(fileList)}

\* the latest call was a save, rename or delete that ran to its end on an available store
Mutated ==
  /\ sdOK
  /\ \/ lastOp.op = "save" /\ lastOp.file # << >>
     \/ lastOp.op = "rename" /\ FsExists(prevDisk, lastOp.file)
     \/ lastOp.op = "delete"

----------------------------------------------------------------------------
(* Screen changes and the redraw request: iterations closer together and   *)
(* further apart than the render rate limit                                *)

ScreenClock == {0} \cup {FirstTick + d : d \in {0, 51, 300, 400}}

ScreenTick ==
  \E t \in {c \in ScreenClock : c > now} :
   \E power \in BOOLEAN, back \in BOOLEAN, events \in SessionEvents :
    \E suspends \in SleepOutcomes(t, power) :
    Tick(Input(t, power, IF back THEN {"BACK"} ELSE {}, AdcIdle, events,
               WasAnyPressed(power, IF back THEN {"BACK"} ELSE {}),
               FALSE, FALSE, suspends))

NextScreen == ScreenTick

SpecScreen == Init /\ [][NextScreen]_vars

Rendered == \E i \in 1..Len(trace) : trace[i] = "render"

C20_ReachedShortPress ==
  /\ tickScreen = "TEXT_EDITOR"
  /\ currentState = "MAIN_MENU"
  /\ powerLog.released
  /\ ~powerLog.dirtyBefore
  /\ ~Rendered
  /\ screenDirty

C20_ReachedLoad ==
  /\ tickScreen = "FILE_BROWSER"
  /\ currentState = "TEXT_EDITOR"
  /\ ~powerLog.dirtyBefore
  /\ ~Rendered
  /\ screenDirty

----------------------------------------------------------------------------
(* The screen-dirty flag and the draw calls of updateScreen()              *)

TakenIn(t) == \E i \in 1..Len(t) : t[i] = "render"
DrawnIn(t) == \E i \in 1..Len(t) : t[i] = "draw"

\* C21 (safety part): the screen-dirty flag is cleared only by an actual render of
\* the current screen: an iteration that clears a set flag, or takes the flag in
\* updateScreen(), has drawn the current screen.
C21_ClearedOnlyByRender ==
  [][((screenDirty /\ ~screenDirty') \/ TakenIn(trace')) => DrawnIn(trace')]_vars

\* C21, the part about the rate limiter: a set flag is cleared by updateScreen() only
C21_ClearedOnlyByUpdate ==
  [][(screenDirty /\ ~screenDirty') => TakenIn(trace')]_vars

C21_ReachedDropped ==
  /\ currentState = "NEW_FILE"
  /\ tickScreen = "NEW_FILE"
  /\ powerLog.dirtyBefore
  /\ ~screenDirty
  /\ TakenIn(trace)
  /\ ~DrawnIn(trace)

----------------------------------------------------------------------------
(* The render rate limit: iterations exactly at and just past the limit    *)
(* after a render, with and without a pairing passkey                      *)

RateClock ==
  {0, FirstTick, FirstTick + SCREEN_UPDATE_MS, FirstTick + SCREEN_UPDATE_MS + 1,
   FirstTick + 2 * SCREEN_UPDATE_MS + 1, FirstTick + 2 * SCREEN_UPDATE_MS + 2}

RateEvents == {<< >>} \cup {<<GotoEvent(a)>> : a \in BleScreens}

RateTick ==
  \E t \in {c \in RateClock : c > now} :
   \E events \in RateEvents, passkey \in BOOLEAN :
    Tick(Input(t, FALSE, {}, AdcIdle, events, FALSE, FALSE, passkey, TRUE))

NextRate == RateTick

SpecRate == Init /\ [][NextRate]_vars

CriticalIn(t) == \E i \in 1..Len(t) : t[i] = "critical"

\* C22: a render comes more than 250 ms after the previous one unless the screen is
\* BLUETOOTH_SETTINGS with a passkey available; in that case a dirty screen is
\* rendered in the same iteration whatever the time since the previous render.
C22_RenderRateLimit ==
  [][/\ TakenIn(trace')
          => (Elapsed(now', lastScreenUpdate) > SCREEN_UPDATE_MS \/ CriticalIn(trace'))
     /\ CriticalIn(trace') => (currentState' = "BLUETOOTH_SETTINGS" /\ ~screenDirty')]_vars

\* a render on the Bluetooth settings screen in an iteration that found a passkey
C22_Witness ==
  /\ CriticalIn(trace)
  /\ TakenIn(trace)
  /\ DrawnIn(trace)
  /\ now = FirstTick + 2 * SCREEN_UPDATE_MS + 1
  /\ lastScreenUpdate = now
  /\ tickScreen = "BLUETOOTH_SETTINGS"

----------------------------------------------------------------------------
(* The navigation buttons: holds over several iterations, across screen    *)
(* changes, across a long press of the power button and across the first   *)
(* note of an empty card                                                   *)

SecondTick == FirstTick + LONG_PRESS_MS + 1

ButtonClock == {0, FirstTick, SecondTick, SecondTick + FirstTick}

\* a card whose notes directory holds no note
NoNotes == (ReadMe :> Filler)

ButtonsInit == \E d \in {InitDisk, NoNotes} : Is(Boot(TRUE, d))

ButtonSets == {{}} \cup {{b} : b \in Buttons}

ButtonEvents ==
  {<< >>, <<CreateEvent, ConfirmEvent, GotoEvent("FILE_BROWSER")>>}
  \cup {<<GotoEvent(to)>> : to \in {"FILE_BROWSER", "BLUETOOTH_SETTINGS", "SETTINGS"}}

\* the Back button drives the first ADC channel as well as its GPIO level
ButtonTick ==
  \E t \in {c \in ButtonClock : c > now} :
   \E power \in BOOLEAN, pressed \in ButtonSets, events \in ButtonEvents :
    \E suspends \in SleepOutcomes(t, power) :
    Tick(Input(t, power, pressed, IF "BACK" \in pressed THEN AdcBack ELSE AdcIdle,
               events, WasAnyPressed(power, pressed), FALSE, FALSE, suspends))

NextButtons == ButtonTick

SpecButtons == ButtonsInit /\ [][NextButtons]_vars

ButtonKey(b) ==
  CASE b = "UP" -> "key_UP"
    [] b = "DOWN" -> "key_DOWN"
    [] b = "LEFT" -> "key_LEFT"
    [] b = "RIGHT" -> "key_RIGHT"
    [] b = "CONFIRM" -> "key_ENTER"
    [] b = "BACK" -> "key_ESCAPE"

PairsIn(t, key) == Cardinality({i \in 1..Len(t) : t[i] = key})

\* the button has a key on the screen, and the browser has a note to move to
LiveOn(b, screen, count) ==
  /\ \E i \in 1..Len(KeyMap(screen)) : KeyMap(screen)[i][1] = b
  /\ (screen = "FILE_BROWSER" /\ b \in {"UP", "DOWN", "CONFIRM"}) => count > 0

\* C23: an iteration enqueues at most one press/release pair per button, and only
\* for a button that was not latched as pressed, is latched by the iteration and is
\* live on the iteration's screen; a latched button that is sampled pressed stays
\* latched; and unless this or the previous iteration left processPhysicalButtons()
\* through the long-press branch, the pair is enqueued exactly in the iteration that
\* samples the button pressed after an iteration that sampled it released, when the
\* button is live on the screen of that iteration.
C23_OnePairPerHold ==
  [][\A b \in Buttons :
       LET n == PairsIn(trace', ButtonKey(b))
           first == b \in powerLog'.levels /\ b \notin powerLog.levels
           live == LiveOn(b, powerLog'.stateAfter, Len(fileList))
       IN /\ n <= 1
          /\ n = 1 => (b \notin btnLast /\ b \in btnLast' /\ b \in powerLog'.levels /\ live)
          /\ (b \in btnLast /\ b \in powerLog'.levels) => b \in btnLast'
          /\ (~powerLog.sleepCalled /\ ~powerLog'.sleepCalled)
               => (n = 1 <=> (first /\ live))]_vars

\* the second iteration: Up, pressed on the main menu, is still pressed on the file
\* browser, which lists the first note of the card, and no second pair is enqueued
C23_Witness ==
  /\ now = SecondTick
  /\ "UP" \in powerLog.levels /\ "UP" \in btnLast
  /\ powerLog.stateAfter = "FILE_BROWSER" /\ tickScreen = "FILE_BROWSER"
  /\ NoteA \notin DOMAIN disk
  /\ Len(fileList) = 1
  /\ PairsIn(trace, "key_UP") = 0

\* Up is pressed on the file browser of a card without notes
C23_ReachedEmptyList ==
  /\ "UP" \in powerLog.levels
  /\ powerLog.stateAfter = "FILE_BROWSER"
  /\ fileList = << >>
  /\ PairsIn(trace, "key_UP") = 0

\* Back stays pressed from another screen into the Bluetooth settings screen
C23_ReachedAdcHold ==
  /\ "BACK" \in powerLog.levels /\ "BACK" \in btnLast
  /\ tickScreen = "BLUETOOTH_SETTINGS" /\ lastState = "BLUETOOTH_SETTINGS"
  /\ PairsIn(trace, "key_ESCAPE") = 0
  /\ now = SecondTick

----------------------------------------------------------------------------
(* The card pulled during saveCurrentFile(): the save advances one file    *)
(* operation at a time and the card may go between any two of them         *)

\* the card is pulled inside save(); every later file operation fails
CardPulled ==
  /\ ~crashed /\ savePc # "idle"
  /\ sdOK
  /\ Install([Cur EXCEPT !.sdOK = FALSE])

NextSaveFail == CrashEdit \/ CrashSaveCall \/ CrashSaveStep \/ CardPulled

SpecSaveFail == CrashInit /\ [][NextSaveFail]_vars

Stored(d, file, title, body) ==
  FsExists(d, file) /\ d[file] = title \o <<LF, LF>> \o body

\* C24: when saveCurrentFile() returns, the open note's file holds the title, a
\* blank line and the body, or the unsaved-changes flag is still set.
C24_FlagOnlyWhenStored ==
  [][(savePc # "idle" /\ savePc' = "idle")
       => (Stored(disk', curFile', curTitle', buf') \/ unsaved')]_vars

\* a save has cleared the flag of an edited note although the card was pulled
\* before the old file was replaced
C24_ReachedLostSave ==
  /\ savePc = "idle" /\ ~unsaved /\ ~sdOK
  /\ buf # << >>
  /\ ~Stored(disk, curFile, curTitle, buf)

----------------------------------------------------------------------------
(* A rename from the file browser followed by a save of the open note      *)

SaveAfterRename ==
  /\ trace = <<"rename">>
  /\ curFile # << >>
  /\ Install(Log(saveCurrentFile(Call("save", curFile, << >>, 0)), "save"))

NextRenameSave == RenameNote \/ SaveAfterRename

SpecRenameSave == RenameInit /\ [][NextRenameSave]_vars

\* the file is in the directory d with the content it had in the directory before
KeptIn(d, before, name) == FsExists(d, name) /\ d[name] = before[name]

\* the note files other than the renamed note and the note open at the rename
OtherNotes(before, op) == (DOMAIN before) \ {op.file, op.open}

\* C25: a rename leaves every file other than the renamed note and the open note
\* under its name with its content, and so does a save of the open note that
\* follows the rename.
C25_OthersUntouched ==
  [][/\ lastOp'.op = "rename"
         => \A n \in OtherNotes(disk, lastOp') : KeptIn(disk', disk, n)
     /\ (lastOp.op = "rename" /\ lastOp'.op = "save")
         => \A n \in OtherNotes(prevDisk, lastOp) : KeptIn(disk', prevDisk, n)]_vars

\* C25, the rename alone
C25_RenameKeepsOthers ==
  [][lastOp'.op = "rename"
       => \A n \in OtherNotes(disk, lastOp') : KeptIn(disk', disk, n)]_vars

\* the open note was renamed with every name taken and then saved: the file
\* base_99.txt of another note now holds the open note
C25_ReachedReplaced ==
  /\ lastOp.op = "save"
  /\ curFile = NameK(ShortBase, MAX_SUFFIX)
  /\ Stored(disk, curFile, curTitle, buf)
  /\ disk[curFile] # Filler
  /\ FsExists(disk, NoteA)

============================================================================
